---- MODULE Spec2Model ----
(***************************************************************************)
(* Model of wigle-bluetooth (src/main.go): a BLE scanner that correlates   *)
(* discovery events with the latest gpsd position report and the BlueZ     *)
(* device class, and appends WiGLE rows to a CSV file.                     *)
(*                                                                         *)
(* Threads of the program:                                                 *)
(*   main      the startup sequence of main(), then adapter.Scan           *)
(*   gps       the goroutine started by gps.Watch(), which runs tpvFilter  *)
(*   workers   invocations of the adapter.Scan callback                    *)
(* and the environment: kill (killall in src/payload.sh).                  *)
(*                                                                         *)
(* float64 values are fixed-point integers in units of 10^-6 (Micro);      *)
(* time.Time values are integers in units of 1/TicksPerSec seconds.        *)
(***************************************************************************)
EXTENDS Integers, Sequences, FiniteSets, TLC

(***************************************************************************)
(* Bounds of the model.                                                    *)
(***************************************************************************)
\* discovery events delivered in one run
MaxEvents == 2
\* last instant of the clock, in ticks
MaxTime == 2

\* keys read by the control loop in one run
MaxKeys == 4
\* CSV files a loot directory can take
MaxLogs == 2

\* ticks per second: time.Time is finer than the "2006-01-02 15:04:05" layout
TicksPerSec == 2
\* fixed-point scale of a float64
Micro == 1000000

(***************************************************************************)
(* Integer helpers: uint32 arithmetic and the formats of fmt.Sprintf.      *)
(***************************************************************************)
\* a uint32 is held as its two 16-bit halves, so that every 32-bit value is there
Half == 65536

U32(hi, lo) == [hi |-> hi, lo |-> lo]

\* 0x1FFC
Mask == U32(0, \H1FFC)

RECURSIVE BitAnd(_, _)
\* a & b on naturals, bit by bit
BitAnd(a, b) ==
    IF a = 0 \/ b = 0 THEN 0
    ELSE 2 * BitAnd(a \div 2, b \div 2) + (IF a % 2 = 1 /\ b % 2 = 1 THEN 1 ELSE 0)

\* a & b on uint32
And32(a, b) == U32(BitAnd(a.hi, b.hi), BitAnd(a.lo, b.lo))

\* fmt.Sprintf("%d", n)
FormatD(n) == ToString(n)

\* fmt.Sprintf("%d", c) of a uint32 below 2^31
FormatU32(c) == ToString(c.hi * Half + c.lo)

\* the six fraction digits of "%f"
Pad6(n) ==
    LET s == ToString(n)
    IN  CASE Len(s) = 1 -> "00000" \o s
          [] Len(s) = 2 -> "0000" \o s
          [] Len(s) = 3 -> "000" \o s
          [] Len(s) = 4 -> "00" \o s
          [] Len(s) = 5 -> "0" \o s
          [] OTHER -> s

\* fmt.Sprintf("%f", x) of a float64 held in units of 10^-6
FormatF(x) ==
    LET a == IF x < 0 THEN -x ELSE x
    IN  (IF x < 0 THEN "-" ELSE "") \o ToString(a \div Micro) \o "." \o Pad6(a % Micro)

\* int(x): conversion of a float64 to int truncates toward zero
IntOf(x) == IF x < 0 THEN -((-x) \div Micro) ELSE x \div Micro

\* t.Format("2006-01-02 15:04:05"): second precision, the fraction is dropped
FormatTime(t) == "1970-01-01 00:00:0" \o ToString(t \div TicksPerSec)

RECURSIVE Join(_, _)
\* the elements of a sequence of strings joined with sep
Join(s, sep) ==
    IF Len(s) = 0 THEN ""
    ELSE IF Len(s) = 1 THEN s[1]
    ELSE s[1] \o sep \o Join(Tail(s), sep)

(***************************************************************************)
(* deviceTypeLegend and buildCapabilities (src/main.go:185-325).           *)
(***************************************************************************)
\* the case labels of the switch, in source order
LegendTable ==
    << <<\H0000, "Misc">>,
       <<\H0100, "Computer">>, <<\H0104, "Desktop">>, <<\H0108, "Server">>,
       <<\H010C, "Laptop">>, <<\H0110, "PDA">>, <<\H0114, "Palm">>,
       <<\H0118, "Wearable Computer">>,
       <<\H0200, "Phone">>, <<\H0204, "Cellphone">>, <<\H0208, "Cordless Phone">>,
       <<\H020C, "Smartphone">>, <<\H0210, "Modem/GW">>, <<\H0214, "ISDN">>,
       <<\H0400, "A/V">>, <<\H0404, "Headset">>, <<\H0408, "Handsfree">>,
       <<\H0410, "Mic">>, <<\H0414, "Speaker">>, <<\H0418, "Headphones">>,
       <<\H041C, "Portable Audio">>, <<\H0420, "Car Audio">>, <<\H0428, "HiFi">>,
       <<\H0430, "Monitor">>, <<\H0434, "Settop">>, <<\H0438, "Camera">>,
       <<\H043C, "VCR">>, <<\H0440, "Videoconf">>, <<\H0448, "AV Toy">>,
       <<\H044C, "Display/Speaker">>, <<\H0456, "Camcorder">>,
       <<\H0500, "Keyboard !p">>, <<\H0540, "Keyboard">>, <<\H0580, "Pointer">>,
       <<\H05C0, "Keyboard+p">>,
       <<\H0700, "Wearable">>, <<\H0704, "Watch">>, <<\H0708, "Jacket">>,
       <<\H070C, "Pager">>, <<\H0710, "Helmet">>, <<\H0714, "Glasses">>,
       <<\H0800, "Toy">>, <<\H0804, "Robot">>, <<\H0808, "Vehicle">>,
       <<\H080C, "Doll">>, <<\H0814, "Game">>, <<\H0820, "Controller">>,
       <<\H0900, "Health">>, <<\H0904, "Blood Pressure">>, <<\H0908, "Thermometer">>,
       <<\H090C, "Scale">>, <<\H0910, "Glucose">>, <<\H0914, "PulseOxy">>,
       <<\H0918, "Pulse">>, <<\H091C, "Health Display">>,
       <<\H1F00, "Uncategorized">> >>

LegendKeys == {LegendTable[i][1] : i \in DOMAIN LegendTable}

LegendNames == {LegendTable[i][2] : i \in DOMAIN LegendTable}

\* the switch: the first label equal to deviceClass, else the default
deviceTypeLegend(deviceClass) ==
    IF deviceClass.hi = 0 /\ deviceClass.lo \in LegendKeys
    THEN LegendTable[CHOOSE i \in DOMAIN LegendTable :
                        /\ LegendTable[i][1] = deviceClass.lo
                        /\ \A j \in 1..(i - 1) : LegendTable[j][1] # deviceClass.lo][2]
    ELSE "Misc"

\* buildCapabilities without the mask: the legend is asked for the raw class
buildCapabilities_NoMask(class) ==
    LET name == deviceTypeLegend(class)
    IN  IF name # "" THEN name \o " [LE]" ELSE "[LE]"

buildCapabilities(class) ==
    LET deviceClass == And32(class, Mask)
        name == deviceTypeLegend(deviceClass)
    IN  IF name # "" THEN name \o " [LE]" ELSE "[LE]"

(***************************************************************************)
(* Inputs: position reports, discovered devices, the BlueZ registry.       *)
(***************************************************************************)
\* gpsd.TPVReport values (Mode, Lat, Lon, Alt, Eph): a 3D fix, a 2D fix, no fix
Report3D ==
    [Mode |-> 3, Lat |-> 37000000, Lon |-> -122000000, Alt |-> 10500000, Eph |-> 5000000]

Report2D ==
    [Mode |-> 2, Lat |-> 37000001, Lon |-> -122250000, Alt |-> -500000, Eph |-> 12500000]

ReportNoFix ==
    [Mode |-> 1, Lat |-> 1500000, Lon |-> 2500000, Alt |-> 3500000, Eph |-> 99000000]

Reports == {Report3D, Report2D, ReportNoFix}

\* bluetooth.ScanResult values: address octets, local name, RSSI, company ids
DevicePager ==
    [Address |-> <<"AA", "BB", "CC", "DD", "EE", "FF">>, LocalName |-> "Pager",
     RSSI |-> -60, ManufacturerData |-> <<76, 6>>]

DeviceNameless ==
    [Address |-> <<"11", "22", "33", "44", "55", "66">>, LocalName |-> "",
     RSSI |-> -75, ManufacturerData |-> <<>>]

Devices == {DevicePager, DeviceNameless}

\* the surroundings of one run: the devices in radio range and the reports the
\* receiver delivers there
Surroundings ==
    { [nearby |-> {DevicePager, DeviceNameless}, feed |-> {Report3D, ReportNoFix}],
      [nearby |-> {DevicePager}, feed |-> {Report3D, Report2D, ReportNoFix}] }

\* device.Address.String()
AddressString(a) == Join(a, ":")

Addrs == {AddressString(d.Address) : d \in Devices}

\* the object path getDeviceClass asks for: the colons of addr replaced by "_"
ObjectPath(d) == "/org/bluez/hci0/dev_" \o Join(d.Address, "_")

\* org.bluez.Device1.Class as BlueZ holds it, by object path
RegistryClass(path) ==
    CASE path = "/org/bluez/hci0/dev_AA_BB_CC_DD_EE_FF" -> U32(\H005A, \H020C)
      [] path = "/org/bluez/hci0/dev_11_22_33_44_55_66" -> U32(\H0000, \H0456)
      [] OTHER -> U32(0, 0)

\* what obj.GetProperty can answer: an error, a variant of another type, a uint32
PropertyKinds == {"error", "string", "uint32"}

GetProperty(kind, path) ==
    CASE kind = "error" -> [err |-> TRUE, type |-> "none", value |-> U32(0, 0)]
      [] kind = "string" -> [err |-> FALSE, type |-> "string", value |-> U32(0, 0)]
      [] OTHER -> [err |-> FALSE, type |-> "uint32", value |-> RegistryClass(path)]

\* getDeviceClass (src/main.go:168-180)
getDeviceClass(kind, d) ==
    LET v == GetProperty(kind, ObjectPath(d))
    IN  IF ~v.err /\ v.type = "uint32" THEN v.value ELSE U32(0, 0)

\* LocationData
ZeroLocation == [Fix |-> FALSE, Latitude |-> 0, Longitude |-> 0, Altitude |-> 0, Error |-> 0]

\* a literal whose Fix asks for a 3D fix
LocationOf_Fix3D(report) ==
    [Fix |-> report.Mode > 2, Latitude |-> report.Lat, Longitude |-> report.Lon,
     Altitude |-> report.Alt, Error |-> report.Eph]

\* the LocationData literal tpvFilter builds from a report
LocationOf(report) ==
    [Fix |-> report.Mode >= 2, Latitude |-> report.Lat, Longitude |-> report.Lon,
     Altitude |-> report.Alt, Error |-> report.Eph]

LocationFields == <<"Fix", "Latitude", "Longitude", "Altitude", "Error">>

Header ==
    <<"MAC", "SSID", "AuthMode", "FirstSeen", "Channel",
      "Frequency", "RSSI", "CurrentLatitude", "CurrentLongitude",
      "AltitudeMeters", "AccuracyMeters", "RCOIs", "MfgrId", "Type">>

\* the first manufacturer id of the advertisement, or blank
MfgrID(d) ==
    IF Len(d.ManufacturerData) > 0 THEN FormatD(d.ManufacturerData[1]) ELSE ""

\* a row whose Frequency is the unmasked class
Row_RawClass(addr, d, capabilities, first, deviceClass, l) ==
    << addr, d.LocalName, capabilities, FormatTime(first), "0",
       FormatU32(deviceClass), FormatD(d.RSSI),
       FormatF(l.Latitude), FormatF(l.Longitude), FormatD(IntOf(l.Altitude)),
       FormatF(l.Error), "", MfgrID(d), "BLE" >>

\* the row literal of the callback (src/main.go:136-151)
Row(addr, d, capabilities, first, deviceClass, l) ==
    << addr, d.LocalName, capabilities, FormatTime(first), "0",
       FormatU32(And32(deviceClass, Mask)), FormatD(d.RSSI),
       FormatF(l.Latitude), FormatF(l.Longitude), FormatD(IntOf(l.Altitude)),
       FormatF(l.Error), "", MfgrID(d), "BLE" >>

(***************************************************************************)
(* State.                                                                  *)
(***************************************************************************)
Workers == {"w1", "w2"}

NoTime == -1

VARIABLES
    mainPc,          \* where main() is
    panicMsg,        \* the value must() panicked with, "" while none
    stdout,          \* whether "failed to start scan:" was printed
    filterAdded,     \* gps.AddFilter("TPV", tpvFilter) was called
    watching,        \* gps.Watch() was called: the gps goroutine runs
    dirExists,       \* /root/loot/wigle-bluetooth exists
    fileExists,      \* the CSV file of this run exists
    file,            \* the records of the CSV file on disk
    buf,             \* the records held in the csv.Writer's buffer
    currentLocation, \* the global of that name
    locationMu,      \* the holder of the mutex: "free", "gps" or a worker
    firstSeen,       \* the global map, NoTime where the key is absent
    clock,           \* the last instant time.Now() returned
    gpsPc,           \* where the gps goroutine is in tpvFilter
    report,          \* tpvFilter's report
    concurrent,      \* whether the scan source runs callbacks concurrently
    nearby,          \* the devices in radio range during this run
    feed,            \* the reports the receiver delivers during this run
    scanPc,          \* where each callback invocation is
    device,          \* the callback's device
    loc,             \* the callback's loc
    now,             \* the callback's now
    seen,            \* the callback's seen
    deviceClass,     \* the callback's deviceClass
    capabilities,    \* the callback's capabilities
    row,             \* the callback's row
    lookupFailed,    \* whether the callback's registry lookup failed
    events,          \* discovery events delivered so far
    accepted,        \* discovery events that passed the fix check so far
    gpsProcessed,    \* tpvFilter ran at least once
    lastMode,        \* Mode of the latest report delivered, 0 before the first
    completed,       \* the report of the last tpvFilter call that released the mutex
    encClass,        \* the class handed to buildCapabilities on its own
    encResult,       \* what it returned
    encDone,         \* whether it returned
    script,          \* which control script runs: "payload.sh" or "part_000"
    ctlPc,           \* where the control script is: "menu" or "exited"
    choice,          \* the script's choice, "" before the first key
    keys,            \* keys read so far
    said,            \* the last line the script logged
    starting,        \* wiglebluetooth processes that have no log file yet
    logging,         \* wiglebluetooth processes that have created their log file
    btLogs,          \* CSV files in /root/loot/wigle-bluetooth
    wifiLogs,        \* CSV files of the Pineapple in /root/loot/wigle
    combined,        \* wigle-combined_*.csv files in /root/loot/wigle
    wigleMode        \* whether the Pineapple's wigle mode is on

mainVars == <<mainPc, panicMsg, stdout, filterAdded, watching, dirExists, fileExists>>

sinkVars == <<file, buf>>

gpsVars == <<gpsPc, report, gpsProcessed, lastMode, completed>>

localVars == <<device, loc, now, seen, deviceClass, capabilities, row, lookupFailed>>

envVars == <<nearby, feed>>

scanVars == <<scanPc, localVars, events, accepted, concurrent, envVars>>

encVars == <<encClass, encResult, encDone>>

ctlVars == <<script, ctlPc, choice, keys, said, starting, logging, btLogs, wifiLogs,
             combined, wigleMode>>

vars == <<mainVars, sinkVars, currentLocation, locationMu, firstSeen, clock,
          gpsVars, scanVars, encVars, ctlVars>>

NoDevice == [Address |-> <<>>, LocalName |-> "", RSSI |-> 0, ManufacturerData |-> <<>>]

\* the callback's locals before it runs
IdleLocals ==
    /\ device = [w \in Workers |-> NoDevice]
    /\ loc = [w \in Workers |-> ZeroLocation]
    /\ now = [w \in Workers |-> NoTime]
    /\ seen = [w \in Workers |-> FALSE]
    /\ deviceClass = [w \in Workers |-> U32(0, 0)]
    /\ capabilities = [w \in Workers |-> ""]
    /\ row = [w \in Workers |-> <<>>]
    /\ lookupFailed = [w \in Workers |-> FALSE]

\* the process before main() runs; package-level variables hold zero values
InitProcess ==
    /\ mainPc = "enable"
    /\ panicMsg = ""
    /\ stdout = FALSE
    /\ filterAdded = FALSE
    /\ watching = FALSE
    /\ dirExists \in BOOLEAN
    /\ fileExists = FALSE
    /\ file = <<>>
    /\ buf = <<>>
    /\ currentLocation = ZeroLocation
    /\ locationMu = "free"
    /\ firstSeen = [a \in Addrs |-> NoTime]
    /\ clock = 0
    /\ gpsPc = "idle"
    /\ report = [Mode |-> 0, Lat |-> 0, Lon |-> 0, Alt |-> 0, Eph |-> 0]
    /\ scanPc = [w \in Workers |-> "idle"]
    /\ IdleLocals
    /\ events = 0
    /\ accepted = 0
    /\ gpsProcessed = FALSE
    /\ lastMode = 0
    /\ completed = [Mode |-> 0, Lat |-> 0, Lon |-> 0, Alt |-> 0, Eph |-> 0]

EncIdle ==
    /\ encClass = U32(0, 0)
    /\ encResult = ""
    /\ encDone = FALSE

\* the control script at its first prompt, on a device with no loot yet
CtlIdle ==
    /\ script = "payload.sh"
    /\ ctlPc = "menu"
    /\ choice = ""
    /\ keys = 0
    /\ said = ""
    /\ starting = 0
    /\ logging = 0
    /\ btLogs = 0
    /\ wifiLogs = 0
    /\ combined = 0
    /\ wigleMode = FALSE

\* the scan source of this build delivers one discovery event at a time
Init ==
    /\ InitProcess
    /\ concurrent = FALSE
    /\ \E s \in Surroundings :
          /\ nearby = s.nearby
          /\ feed = s.feed
    /\ EncIdle
    /\ CtlIdle

Alive == mainPc \notin {"panicked", "killed"}

ActiveWorkers == IF concurrent THEN Workers ELSE {"w1"}

(***************************************************************************)
(* main(): the startup sequence (src/main.go:34-100) and adapter.Scan.     *)
(***************************************************************************)
\* must that only logs: the failure is noted and main() goes on
must_Continue(action, err, next) ==
    /\ mainPc' = next
    /\ panicMsg' = IF err THEN "failed to " \o action \o ": error" ELSE panicMsg

\* must(action, err): panics on an error, and the panic ends the process;
\* no deferred call is registered yet at any call of must
must(action, err, next) ==
    /\ mainPc' = IF err THEN "panicked" ELSE next
    /\ panicMsg' = IF err THEN "failed to " \o action \o ": error" ELSE panicMsg

\* what every step of main() before the log file leaves alone
StartupFrame ==
    UNCHANGED <<stdout, watching, sinkVars, currentLocation, locationMu, firstSeen,
                clock, gpsVars, scanVars, encVars, ctlVars>>

EnableBLE ==
    /\ mainPc = "enable"
    /\ \E err \in BOOLEAN : must("enable BLE stack", err, "dial")
    /\ UNCHANGED <<filterAdded, dirExists, fileExists>>
    /\ StartupFrame

GpsdDial ==
    /\ mainPc = "dial"
    /\ \E err \in BOOLEAN : must("gpsd dial", err, "addFilter")
    /\ UNCHANGED <<filterAdded, dirExists, fileExists>>
    /\ StartupFrame

AddFilter ==
    /\ mainPc = "addFilter"
    /\ mainPc' = "dbus"
    /\ filterAdded' = TRUE
    /\ UNCHANGED <<panicMsg, dirExists, fileExists>>
    /\ StartupFrame

SystemBus ==
    /\ mainPc = "dbus"
    /\ \E err \in BOOLEAN : must("connect to system dbus", err, "mkdir")
    /\ UNCHANGED <<filterAdded, dirExists, fileExists>>
    /\ StartupFrame

MkdirAll ==
    /\ mainPc = "mkdir"
    /\ \E err \in BOOLEAN :
          /\ must("create loot directory", err, "create")
          /\ dirExists' = IF err THEN dirExists ELSE TRUE
    /\ UNCHANGED <<filterAdded, fileExists>>
    /\ StartupFrame

\* os.Create, then csv.NewWriter on the new, empty file
CreateFile ==
    /\ mainPc = "create"
    /\ \E err \in BOOLEAN :
          /\ must("create CSV file", err, "header")
          /\ fileExists' = ~err
    /\ UNCHANGED <<filterAdded, dirExists>>
    /\ StartupFrame

\* writer.Write(header): the record goes to the writer's buffer
WriteHeader ==
    /\ mainPc = "header"
    /\ mainPc' = "headerFlush"
    /\ buf' = Append(buf, Header)
    /\ UNCHANGED <<panicMsg, stdout, filterAdded, watching, dirExists, fileExists, file,
                   currentLocation, locationMu, firstSeen, clock, gpsVars, scanVars, encVars, ctlVars>>

\* the header is left in the writer's buffer
FlushHeader_Missing ==
    /\ mainPc = "headerFlush"
    /\ mainPc' = "watch"
    /\ UNCHANGED <<panicMsg, stdout, filterAdded, watching, dirExists, fileExists, sinkVars,
                   currentLocation, locationMu, firstSeen, clock, gpsVars, scanVars, encVars, ctlVars>>

\* writer.Flush(): the buffer goes to the file
FlushHeader ==
    /\ mainPc = "headerFlush"
    /\ mainPc' = "watch"
    /\ file' = file \o buf
    /\ buf' = <<>>
    /\ UNCHANGED <<panicMsg, stdout, filterAdded, watching, dirExists, fileExists,
                   currentLocation, locationMu, firstSeen, clock, gpsVars, scanVars, encVars, ctlVars>>

\* gps.Watch(): starts the goroutine that hands reports to the filters
Watch ==
    /\ mainPc = "watch"
    /\ mainPc' = "scan"
    /\ watching' = TRUE
    /\ UNCHANGED <<panicMsg, stdout, filterAdded, dirExists, fileExists, sinkVars,
                   currentLocation, locationMu, firstSeen, clock, gpsVars, scanVars, encVars, ctlVars>>

\* adapter.Scan(callback): returns an error at once, or runs the callback
\* for as long as the process lives
ScanStart ==
    /\ mainPc = "scan"
    /\ \E err \in BOOLEAN : mainPc' = IF err THEN "scanFailed" ELSE "scanning"
    /\ UNCHANGED <<panicMsg, stdout, filterAdded, watching, dirExists, fileExists, sinkVars,
                   currentLocation, locationMu, firstSeen, clock, gpsVars, scanVars, encVars, ctlVars>>

\* if err != nil: Println("failed to start scan:", err); then for {}.
\* The empty loop changes nothing: "spin" has no step of main() after it.
ReportScanFailure ==
    /\ mainPc = "scanFailed"
    /\ mainPc' = "spin"
    /\ stdout' = TRUE
    /\ UNCHANGED <<panicMsg, filterAdded, watching, dirExists, fileExists, sinkVars,
                   currentLocation, locationMu, firstSeen, clock, gpsVars, scanVars, encVars, ctlVars>>

MainNext ==
    \/ EnableBLE
    \/ GpsdDial
    \/ AddFilter
    \/ SystemBus
    \/ MkdirAll
    \/ CreateFile
    \/ WriteHeader
    \/ FlushHeader
    \/ Watch
    \/ ScanStart
    \/ ReportScanFailure

(***************************************************************************)
(* The environment ends the process (killall wiglebluetooth): memory and   *)
(* the writer's buffer are gone, the file stays as it is on disk.          *)
(***************************************************************************)
Kill ==
    /\ Alive
    /\ mainPc' = "killed"
    /\ buf' = <<>>
    /\ currentLocation' = ZeroLocation
    /\ locationMu' = "free"
    /\ firstSeen' = [a \in Addrs |-> NoTime]
    /\ clock' = 0
    /\ gpsPc' = "idle"
    /\ report' = [Mode |-> 0, Lat |-> 0, Lon |-> 0, Alt |-> 0, Eph |-> 0]
    /\ completed' = [Mode |-> 0, Lat |-> 0, Lon |-> 0, Alt |-> 0, Eph |-> 0]
    /\ scanPc' = [w \in Workers |-> "idle"]
    /\ device' = [w \in Workers |-> NoDevice]
    /\ loc' = [w \in Workers |-> ZeroLocation]
    /\ now' = [w \in Workers |-> NoTime]
    /\ seen' = [w \in Workers |-> FALSE]
    /\ deviceClass' = [w \in Workers |-> U32(0, 0)]
    /\ capabilities' = [w \in Workers |-> ""]
    /\ row' = [w \in Workers |-> <<>>]
    /\ lookupFailed' = [w \in Workers |-> FALSE]
    /\ UNCHANGED <<panicMsg, stdout, filterAdded, watching, dirExists, fileExists, file,
                   events, accepted, concurrent, envVars, gpsProcessed, lastMode, encVars, ctlVars>>

(***************************************************************************)
(* locationMu (src/main.go:28): Lock blocks while another holds the mutex. *)
(***************************************************************************)
\* a Lock that never waits
MutexFree_NoWait(m) == TRUE

MutexFree(m) == m = "free"

\* the place after field i of a LocationData assignment or copy
NextField(prefix, i, done) ==
    IF i = Len(LocationFields) THEN done ELSE prefix \o LocationFields[i + 1]

(***************************************************************************)
(* tpvFilter (src/main.go:46-60), run by the goroutine of gps.Watch().     *)
(* The struct assignment is not one machine step: it stores field by       *)
(* field, under the mutex.                                                 *)
(***************************************************************************)
GpsFrame ==
    UNCHANGED <<mainVars, sinkVars, firstSeen, clock, scanVars, encVars, ctlVars>>

\* a TPV report arrives: report := r.(*gpsd.TPVReport); fix := report.Mode >= 2
GpsReceive ==
    /\ Alive /\ watching /\ filterAdded
    /\ gpsPc = "idle"
    /\ \E r \in feed :
          /\ report' = r
          /\ lastMode' = r.Mode
    /\ gpsPc' = "lock"
    /\ gpsProcessed' = TRUE
    /\ UNCHANGED <<currentLocation, locationMu, completed>>
    /\ GpsFrame

GpsLock ==
    /\ Alive
    /\ gpsPc = "lock"
    /\ MutexFree(locationMu)
    /\ locationMu' = "gps"
    /\ gpsPc' = "store" \o LocationFields[1]
    /\ UNCHANGED <<currentLocation, report, gpsProcessed, lastMode, completed>>
    /\ GpsFrame

GpsStore ==
    /\ Alive
    /\ \E i \in DOMAIN LocationFields :
          /\ gpsPc = "store" \o LocationFields[i]
          /\ currentLocation' =
                [currentLocation EXCEPT ![LocationFields[i]] =
                                           LocationOf(report)[LocationFields[i]]]
          /\ gpsPc' = NextField("store", i, "unlock")
    /\ UNCHANGED <<locationMu, report, gpsProcessed, lastMode, completed>>
    /\ GpsFrame

\* locationMu.Unlock(), then the "GPS update:" line
GpsUnlock ==
    /\ Alive
    /\ gpsPc = "unlock"
    /\ locationMu' = "free"
    /\ gpsPc' = "idle"
    /\ completed' = report
    /\ UNCHANGED <<currentLocation, report, gpsProcessed, lastMode>>
    /\ GpsFrame

GpsNext ==
    \/ GpsReceive
    \/ GpsLock
    \/ GpsStore
    \/ GpsUnlock

(***************************************************************************)
(* The adapter.Scan callback (src/main.go:102-158), one invocation per     *)
(* worker at a time.                                                       *)
(***************************************************************************)
ScanFrame ==
    UNCHANGED <<mainVars, gpsVars, concurrent, envVars, encVars, ctlVars>>

\* the scan source invokes the callback with a device
Discover(w) ==
    /\ mainPc = "scanning"
    /\ w \in ActiveWorkers
    /\ scanPc[w] = "idle"
    /\ events < MaxEvents
    /\ \E d \in nearby : device' = [device EXCEPT ![w] = d]
    /\ events' = events + 1
    /\ scanPc' = [scanPc EXCEPT ![w] = "lock"]
    /\ UNCHANGED <<sinkVars, currentLocation, locationMu, firstSeen, clock, accepted,
                   loc, now, seen, deviceClass, capabilities, row, lookupFailed>>
    /\ ScanFrame

ScanLock(w) ==
    /\ Alive
    /\ scanPc[w] = "lock"
    /\ MutexFree(locationMu)
    /\ locationMu' = w
    /\ scanPc' = [scanPc EXCEPT ![w] = "copy" \o LocationFields[1]]
    /\ UNCHANGED <<sinkVars, currentLocation, firstSeen, clock, events, accepted, localVars>>
    /\ ScanFrame

\* loc := currentLocation, field by field
ScanCopy(w) ==
    /\ Alive
    /\ \E i \in DOMAIN LocationFields :
          /\ scanPc[w] = "copy" \o LocationFields[i]
          /\ loc' = [loc EXCEPT ![w][LocationFields[i]] = currentLocation[LocationFields[i]]]
          /\ scanPc' = [scanPc EXCEPT ![w] = NextField("copy", i, "unlock")]
    /\ UNCHANGED <<sinkVars, currentLocation, locationMu, firstSeen, clock, events, accepted,
                   device, now, seen, deviceClass, capabilities, row, lookupFailed>>
    /\ ScanFrame

\* the callback goes on to the fix check with the mutex still held
ScanUnlock_Kept(w) ==
    /\ Alive
    /\ scanPc[w] = "unlock"
    /\ scanPc' = [scanPc EXCEPT ![w] = "checkFix"]
    /\ UNCHANGED <<sinkVars, currentLocation, locationMu, firstSeen, clock, events, accepted,
                   localVars>>
    /\ ScanFrame

ScanUnlock(w) ==
    /\ Alive
    /\ scanPc[w] = "unlock"
    /\ locationMu' = "free"
    /\ scanPc' = [scanPc EXCEPT ![w] = "checkFix"]
    /\ UNCHANGED <<sinkVars, currentLocation, firstSeen, clock, events, accepted, localVars>>
    /\ ScanFrame

\* the callback returns: its locals are gone
Return(w) ==
    /\ scanPc' = [scanPc EXCEPT ![w] = "idle"]
    /\ device' = [device EXCEPT ![w] = NoDevice]
    /\ loc' = [loc EXCEPT ![w] = ZeroLocation]
    /\ now' = [now EXCEPT ![w] = NoTime]
    /\ seen' = [seen EXCEPT ![w] = FALSE]
    /\ deviceClass' = [deviceClass EXCEPT ![w] = U32(0, 0)]
    /\ capabilities' = [capabilities EXCEPT ![w] = ""]
    /\ row' = [row EXCEPT ![w] = <<>>]
    /\ lookupFailed' = [lookupFailed EXCEPT ![w] = FALSE]

\* the fix check left out: every event goes on to a row
ScanCheckFix_NoCheck(w) ==
    /\ Alive
    /\ scanPc[w] = "checkFix"
    /\ scanPc' = [scanPc EXCEPT ![w] = "now"]
    /\ accepted' = accepted + 1
    /\ UNCHANGED localVars
    /\ UNCHANGED <<sinkVars, currentLocation, locationMu, firstSeen, clock, events>>
    /\ ScanFrame

\* an event without a fix is dropped, but its address is registered first
ScanCheckFix_Registers(w) ==
    /\ Alive
    /\ scanPc[w] = "checkFix"
    /\ IF ~loc[w].Fix
       THEN /\ Return(w)
            /\ firstSeen' = [firstSeen EXCEPT ![AddressString(device[w].Address)] = clock]
            /\ UNCHANGED accepted
       ELSE /\ scanPc' = [scanPc EXCEPT ![w] = "now"]
            /\ accepted' = accepted + 1
            /\ UNCHANGED <<localVars, firstSeen>>
    /\ UNCHANGED <<sinkVars, currentLocation, locationMu, clock, events>>
    /\ ScanFrame

\* if !loc.Fix { Println("No GPS fix, skipping device:"); return }
ScanCheckFix(w) ==
    /\ Alive
    /\ scanPc[w] = "checkFix"
    /\ IF ~loc[w].Fix
       THEN /\ Return(w)
            /\ UNCHANGED accepted
       ELSE /\ scanPc' = [scanPc EXCEPT ![w] = "now"]
            /\ accepted' = accepted + 1
            /\ UNCHANGED localVars
    /\ UNCHANGED <<sinkVars, currentLocation, locationMu, firstSeen, clock, events>>
    /\ ScanFrame

\* addr := device.Address.String(); now := time.Now().UTC()
ScanNow(w) ==
    /\ Alive
    /\ scanPc[w] = "now"
    /\ \E t \in clock..MaxTime :
          /\ clock' = t
          /\ now' = [now EXCEPT ![w] = t]
    /\ scanPc' = [scanPc EXCEPT ![w] = "seen"]
    /\ UNCHANGED <<sinkVars, currentLocation, locationMu, firstSeen, events, accepted,
                   device, loc, seen, deviceClass, capabilities, row, lookupFailed>>
    /\ ScanFrame

\* _, seen := firstSeen[addr]
ScanSeen(w) ==
    /\ Alive
    /\ scanPc[w] = "seen"
    /\ seen' = [seen EXCEPT ![w] = firstSeen[AddressString(device[w].Address)] # NoTime]
    /\ scanPc' = [scanPc EXCEPT ![w] = "setFirst"]
    /\ UNCHANGED <<sinkVars, currentLocation, locationMu, firstSeen, clock, events, accepted,
                   device, loc, now, deviceClass, capabilities, row, lookupFailed>>
    /\ ScanFrame

\* firstSeen[addr] = now, seen or not
ScanSetFirst_Always(w) ==
    /\ Alive
    /\ scanPc[w] = "setFirst"
    /\ firstSeen' = [firstSeen EXCEPT ![AddressString(device[w].Address)] = now[w]]
    /\ scanPc' = [scanPc EXCEPT ![w] = "class"]
    /\ UNCHANGED <<sinkVars, currentLocation, locationMu, clock, events, accepted, localVars>>
    /\ ScanFrame

\* if !seen { firstSeen[addr] = now }
ScanSetFirst(w) ==
    /\ Alive
    /\ scanPc[w] = "setFirst"
    /\ firstSeen' = IF ~seen[w]
                    THEN [firstSeen EXCEPT ![AddressString(device[w].Address)] = now[w]]
                    ELSE firstSeen
    /\ scanPc' = [scanPc EXCEPT ![w] = "class"]
    /\ UNCHANGED <<sinkVars, currentLocation, locationMu, clock, events, accepted, localVars>>
    /\ ScanFrame

\* deviceClass := getDeviceClass(dbusConn, addr)
ScanClass(w) ==
    /\ Alive
    /\ scanPc[w] = "class"
    /\ \E kind \in PropertyKinds :
          /\ deviceClass' = [deviceClass EXCEPT ![w] = getDeviceClass(kind, device[w])]
          /\ lookupFailed' = [lookupFailed EXCEPT ![w] = kind # "uint32"]
    /\ scanPc' = [scanPc EXCEPT ![w] = "build"]
    /\ UNCHANGED <<sinkVars, currentLocation, locationMu, firstSeen, clock, events, accepted,
                   device, loc, now, seen, capabilities, row>>
    /\ ScanFrame

\* capabilities := buildCapabilities(deviceClass)
ScanBuild(w) ==
    /\ Alive
    /\ scanPc[w] = "build"
    /\ capabilities' = [capabilities EXCEPT ![w] = buildCapabilities(deviceClass[w])]
    /\ scanPc' = [scanPc EXCEPT ![w] = "row"]
    /\ UNCHANGED <<sinkVars, currentLocation, locationMu, firstSeen, clock, events, accepted,
                   device, loc, now, seen, deviceClass, row, lookupFailed>>
    /\ ScanFrame

\* row := []string{...}: firstSeen[addr] is read again here
ScanRow(w) ==
    /\ Alive
    /\ scanPc[w] = "row"
    /\ row' = [row EXCEPT ![w] =
                  Row(AddressString(device[w].Address), device[w], capabilities[w],
                      firstSeen[AddressString(device[w].Address)], deviceClass[w], loc[w])]
    /\ scanPc' = [scanPc EXCEPT ![w] = "write"]
    /\ UNCHANGED <<sinkVars, currentLocation, locationMu, firstSeen, clock, events, accepted,
                   device, loc, now, seen, deviceClass, capabilities, lookupFailed>>
    /\ ScanFrame

\* writer.Write(row)
ScanWrite(w) ==
    /\ Alive
    /\ scanPc[w] = "write"
    /\ buf' = Append(buf, row[w])
    /\ scanPc' = [scanPc EXCEPT ![w] = "flush"]
    /\ UNCHANGED <<file, currentLocation, locationMu, firstSeen, clock, events, accepted,
                   localVars>>
    /\ ScanFrame

\* the callback returns with the row still in the writer's buffer
ScanFlush_Skipped(w) ==
    /\ Alive
    /\ scanPc[w] = "flush"
    /\ Return(w)
    /\ UNCHANGED <<sinkVars, currentLocation, locationMu, firstSeen, clock, events, accepted>>
    /\ ScanFrame

\* writer.Flush(), the "Found device:" line, and the callback returns
ScanFlush(w) ==
    /\ Alive
    /\ scanPc[w] = "flush"
    /\ file' = file \o buf
    /\ buf' = <<>>
    /\ Return(w)
    /\ UNCHANGED <<currentLocation, locationMu, firstSeen, clock, events, accepted>>
    /\ ScanFrame

ScanNext ==
    \E w \in Workers :
        \/ Discover(w)
        \/ ScanLock(w)
        \/ ScanCopy(w)
        \/ ScanUnlock(w)
        \/ ScanCheckFix(w)
        \/ ScanNow(w)
        \/ ScanSeen(w)
        \/ ScanSetFirst(w)
        \/ ScanClass(w)
        \/ ScanBuild(w)
        \/ ScanRow(w)
        \/ ScanWrite(w)
        \/ ScanFlush(w)

Next ==
    \/ MainNext
    \/ GpsNext
    \/ ScanNext
    \/ Kill

Spec == Init /\ [][Next]_vars

(***************************************************************************)
(* Scheduling: the Go runtime runs every goroutine that can take a step,   *)
(* so the steps of main(), of tpvFilter and of the callback are weakly     *)
(* fair. Nothing obliges the environment to deliver a report, to discover  *)
(* a device or to kill the process.                                        *)
(***************************************************************************)
GpsSteps == GpsLock \/ GpsStore \/ GpsUnlock

ScanSteps ==
    \E w \in Workers :
        \/ ScanLock(w)
        \/ ScanCopy(w)
        \/ ScanUnlock(w)
        \/ ScanCheckFix(w)
        \/ ScanNow(w)
        \/ ScanSeen(w)
        \/ ScanSetFirst(w)
        \/ ScanClass(w)
        \/ ScanBuild(w)
        \/ ScanRow(w)
        \/ ScanWrite(w)
        \/ ScanFlush(w)

FairSpec ==
    /\ Spec
    /\ WF_vars(MainNext)
    /\ WF_vars(GpsSteps)
    /\ WF_vars(ScanSteps)

(***************************************************************************)
(* The same process where one device is in range and the receiver has a    *)
(* steady 3D fix: the runs on which the mutex is contended forever. A      *)
(* goroutine blocked in sync.Mutex.Lock is handed the mutex once it has    *)
(* waited long enough (starvation mode), so it cannot be passed over       *)
(* forever: acquiring the mutex is strongly fair.                          *)
(***************************************************************************)
InitSteadyFix ==
    /\ InitProcess
    /\ dirExists = TRUE
    /\ concurrent = FALSE
    /\ nearby = {DevicePager}
    /\ feed = {Report3D}
    /\ EncIdle
    /\ CtlIdle

FairSpecSteadyFix ==
    /\ InitSteadyFix /\ [][Next]_vars
    /\ WF_vars(MainNext)
    /\ WF_vars(GpsSteps)
    /\ WF_vars(ScanSteps)
    /\ SF_vars(GpsLock)
    /\ \A w \in Workers : SF_vars(ScanLock(w))

(***************************************************************************)
(* The same process under a scan source that runs the callback for two     *)
(* events at once. The callback takes no lock but locationMu, so its steps *)
(* on firstSeen and on the writer interleave freely.                       *)
(***************************************************************************)
InitConcurrent ==
    /\ InitProcess
    /\ dirExists = TRUE
    /\ concurrent = TRUE
    /\ nearby = {DevicePager}
    /\ feed = {Report3D}
    /\ EncIdle
    /\ CtlIdle

SpecConcurrent == InitConcurrent /\ [][Next]_vars

(***************************************************************************)
(* The control loop (src/payload.sh:19-77, and its earlier form            *)
(* src/unnamed/part_000:15-65). One action per branch of the loop; the     *)
(* scanner is seen from outside, as pgrep and killall see it: a process    *)
(* that exists or not, and the log file it creates once started.           *)
(***************************************************************************)
Scripts == {"payload.sh", "part_000"}

Choices == {"UP", "DOWN", "RIGHT", "LEFT", "OTHER"}

\* wiglebluetooth processes alive
scanners == starting + logging

\* pgrep wiglebluetooth > /dev/null
pgrep == scanners > 0

\* ls -t /root/loot/wigle-bluetooth/*.csv | head -n 1 is not empty
latest_bluetooth_csv == btLogs > 0

\* ls -t /root/loot/wigle/*.csv | head -n 1 is not empty: a combined file is
\* a CSV of that directory too
latest_wifi_csv == wifiLogs + combined > 0

\* the steps of the Go program leave the control script alone, and the other
\* way round
CtlFrame ==
    UNCHANGED <<mainVars, sinkVars, currentLocation, locationMu, firstSeen, clock,
                gpsVars, scanVars, encVars>>

\* choice=$(WAIT_FOR_INPUT)
WaitForInput(key) ==
    /\ ctlPc = "menu"
    /\ keys < MaxKeys
    /\ choice' = key
    /\ keys' = keys + 1

\* UP that starts the scanner without asking pgrep
PressUp_NoCheck ==
    /\ WaitForInput("UP")
    /\ starting' = starting + 1
    /\ said' = "wigle-bluetooth started. Logging in /root/loot/wigle-bluetooth"
    /\ UNCHANGED <<script, ctlPc, logging, btLogs, wifiLogs, combined, wigleMode>>
    /\ CtlFrame

\* UP: ./wiglebluetooth & unless pgrep finds one
PressUp ==
    /\ WaitForInput("UP")
    /\ IF pgrep
       THEN /\ said' = "wigle-bluetooth is already running."
            /\ UNCHANGED starting
       ELSE /\ starting' = starting + 1
            /\ said' = "wigle-bluetooth started. Logging in /root/loot/wigle-bluetooth"
    /\ UNCHANGED <<script, ctlPc, logging, btLogs, wifiLogs, combined, wigleMode>>
    /\ CtlFrame

\* DOWN: killall wiglebluetooth if pgrep finds one. part_000 spells the
\* command kilall: the shell finds no such command and no process is signalled.
PressDown ==
    /\ WaitForInput("DOWN")
    /\ IF pgrep
       THEN /\ IF script = "payload.sh"
               THEN starting' = 0 /\ logging' = 0
               ELSE UNCHANGED <<starting, logging>>
            /\ said' = "wigle-bluetooth stopped."
       ELSE /\ said' = "wigle-bluetooth is not running."
            /\ UNCHANGED <<starting, logging>>
    /\ UNCHANGED <<script, ctlPc, btLogs, wifiLogs, combined, wigleMode>>
    /\ CtlFrame

\* the combined file is written: WIGLE_STOP first in payload.sh only
Combine ==
    /\ combined < MaxLogs
    /\ combined' = combined + 1
    /\ wigleMode' = IF script = "payload.sh" THEN FALSE ELSE wigleMode
    /\ said' = "Combined CSV created"

\* RIGHT that combines without asking pgrep
PressRight_NoRunningCheck ==
    /\ WaitForInput("RIGHT")
    /\ IF ~latest_bluetooth_csv
       THEN /\ said' = "No Bluetooth CSV file found in /root/loot/wigle-bluetooth."
            /\ UNCHANGED <<combined, wigleMode>>
       ELSE IF ~latest_wifi_csv
       THEN /\ said' = "No Wi-Fi CSV file found in /root/loot/wigle."
            /\ UNCHANGED <<combined, wigleMode>>
       ELSE Combine
    /\ UNCHANGED <<script, ctlPc, starting, logging, btLogs, wifiLogs>>
    /\ CtlFrame

\* RIGHT: both latest logs must exist; payload.sh also refuses while pgrep
\* finds a scanner, part_000 has no such check
PressRight ==
    /\ WaitForInput("RIGHT")
    /\ IF ~latest_bluetooth_csv
       THEN /\ said' = "No Bluetooth CSV file found in /root/loot/wigle-bluetooth."
            /\ UNCHANGED <<combined, wigleMode>>
       ELSE IF ~latest_wifi_csv
       THEN /\ said' = "No Wi-Fi CSV file found in /root/loot/wigle."
            /\ UNCHANGED <<combined, wigleMode>>
       ELSE IF script = "payload.sh" /\ pgrep
       THEN /\ said' = "Please stop the wigle-bluetooth process before combining CSV files."
            /\ UNCHANGED <<combined, wigleMode>>
       ELSE Combine
    /\ UNCHANGED <<script, ctlPc, starting, logging, btLogs, wifiLogs>>
    /\ CtlFrame

\* LEFT: exit 0; a scanner started with & lives on
PressLeft ==
    /\ WaitForInput("LEFT")
    /\ ctlPc' = "exited"
    /\ said' = "Exiting the script..."
    /\ UNCHANGED <<script, starting, logging, btLogs, wifiLogs, combined, wigleMode>>
    /\ CtlFrame

\* any other key
PressOther ==
    /\ WaitForInput("OTHER")
    /\ said' = "Invalid input. Please try again."
    /\ UNCHANGED <<script, ctlPc, starting, logging, btLogs, wifiLogs, combined, wigleMode>>
    /\ CtlFrame

\* a started wiglebluetooth gets as far as os.Create (src/main.go:70-73)
ScannerCreatesLog ==
    /\ starting > 0
    /\ btLogs < MaxLogs
    /\ starting' = starting - 1
    /\ logging' = logging + 1
    /\ btLogs' = btLogs + 1
    /\ UNCHANGED <<script, ctlPc, choice, keys, said, wifiLogs, combined, wigleMode>>
    /\ CtlFrame

\* a started wiglebluetooth panics in must() before it has a log (no gpsd)
ScannerPanics ==
    /\ starting > 0
    /\ starting' = starting - 1
    /\ UNCHANGED <<script, ctlPc, choice, keys, said, logging, btLogs, wifiLogs, combined,
                   wigleMode>>
    /\ CtlFrame

\* the script is started on a device that may hold logs of earlier runs
InitCtl ==
    /\ InitProcess
    /\ dirExists = FALSE
    /\ concurrent = FALSE
    /\ nearby = {}
    /\ feed = {}
    /\ EncIdle
    /\ script \in Scripts
    /\ ctlPc = "menu"
    /\ choice = ""
    /\ keys = 0
    /\ said = ""
    /\ starting = 0
    /\ logging = 0
    /\ btLogs \in {0, 1}
    /\ wifiLogs \in {0, 1}
    /\ combined = 0
    /\ wigleMode \in BOOLEAN

NextCtl ==
    \/ PressUp
    \/ PressDown
    \/ PressRight
    \/ PressLeft
    \/ PressOther
    \/ ScannerCreatesLog
    \/ ScannerPanics

SpecCtl == InitCtl /\ [][NextCtl]_vars

(***************************************************************************)
(* buildCapabilities on its own: a class is drawn and the function applied.*)
(***************************************************************************)
\* high halves of the classes tried
HighHalves == {\H0000, \H005A, \H8000, \HFFFF}

\* values of bits 2-12 that are no case label
OtherCodes == {\H0004, \H0424, \H0454, \H0600, \H1FFC}

\* bits outside 2-12 of the low half that are set on top of a code
StrayBits == {\H0000, \H0001, \H0003, \H2000, \HE003}

ClassInputs ==
    {U32(h, k + b) : h \in HighHalves, k \in LegendKeys \cup OtherCodes, b \in StrayBits}

InitEnc ==
    /\ InitProcess
    /\ concurrent = FALSE
    /\ nearby = {}
    /\ feed = {}
    /\ encClass \in ClassInputs
    /\ encResult = ""
    /\ encDone = FALSE
    /\ CtlIdle

EncApply ==
    /\ ~encDone
    /\ encResult' = buildCapabilities(encClass)
    /\ encDone' = TRUE
    /\ UNCHANGED <<encClass, mainVars, sinkVars, currentLocation, locationMu, firstSeen,
                   clock, gpsVars, scanVars, ctlVars>>

NextEnc == EncApply

SpecEnc == InitEnc /\ [][NextEnc]_vars

(***************************************************************************)
(* Properties.                                                             *)
(***************************************************************************)
\* the records written so far, on disk or in the writer's buffer
Records == file \o buf

DataRows == Cardinality({i \in DOMAIN Records : Records[i] # Header})

CopyPcs == {"copy" \o LocationFields[i] : i \in DOMAIN LocationFields}

\* a callback invocation that holds its whole copy of the location
HasSnapshot(w) == scanPc[w] \notin ({"idle", "lock"} \cup CopyPcs)

BetweenEvents == \A w \in Workers : scanPc[w] = "idle"

\* the latest report is stored whole and shows no fix, or none has arrived
NoFixStored == gpsPc = "idle" /\ lastMode < 2 /\ ~currentLocation.Fix

\* C1 (as amended): a data row is written only by a callback invocation whose
\* location snapshot has Fix = TRUE; an invocation whose snapshot has no fix
\* never gets as far as the row.
C1_NoRowWithoutFix ==
    [][/\ DataRows' > DataRows =>
             \E w \in Workers : scanPc[w] = "write" /\ loc[w].Fix /\ loc'[w].Fix
       /\ \A w \in Workers :
             (HasSnapshot(w) /\ ~loc[w].Fix) => scanPc'[w] \in {"unlock", "checkFix", "idle"}]_vars

\* C1 witness: an event met the initial snapshot and was dropped, no row written
C1_Witness ==
    /\ Alive /\ BetweenEvents
    /\ events = 1 /\ accepted = 0
    /\ file = <<Header>> /\ buf = <<>>

\* C1 as claimed: as above, and while no report has arrived or the latest
\* report has mode < 2 the number of data rows does not grow.
C1_NoRowsWhileNoFix ==
    [][/\ DataRows' > DataRows =>
             \E w \in Workers : scanPc[w] = "write" /\ loc[w].Fix
       /\ NoFixStored => DataRows' <= DataRows]_vars

\* C2: the location a callback invocation has copied is the zero value or the
\* five fields of one report, never fields of two.
C2_SnapshotOfOneReport ==
    \A w \in Workers :
        HasSnapshot(w) => loc[w] \in {ZeroLocation} \cup {LocationOf(r) : r \in Reports}

\* C2 witness: the callback holds a whole copy of one report while tpvFilter
\* waits for the mutex with another
C2_Witness ==
    /\ scanPc["w1"] = "unlock" /\ locationMu = "w1"
    /\ loc["w1"] = LocationOf(Report3D)
    /\ gpsPc = "lock" /\ report = ReportNoFix

\* the rows of one address all carry one FirstSeen
RowsAgreeOnFirstSeen ==
    \A i, j \in DOMAIN Records :
        (Records[i] # Header /\ Records[j] # Header /\ Records[i][1] = Records[j][1])
            => Records[i][4] = Records[j][4]

\* C3: while the process lives a recorded first-seen time is never changed or
\* removed, and all rows of an address carry the FirstSeen of its first row.
C3_FirstSeenWriteOnce ==
    /\ [](RowsAgreeOnFirstSeen)
    /\ [][\A a \in Addrs :
             (firstSeen[a] # NoTime /\ mainPc' # "killed") => firstSeen'[a] = firstSeen[a]]_vars

\* C3 witness: two rows of one address, the second observed a second later
C3_Witness ==
    /\ Len(file) = 3
    /\ file[2][1] = file[3][1]
    /\ file[2][4] = file[3][4]
    /\ firstSeen[file[2][1]] # NoTime
    /\ clock \div TicksPerSec > firstSeen[file[2][1]] \div TicksPerSec

\* the table's string of a case label
LegendName(k) == LegendTable[CHOOSE i \in DOMAIN LegendTable : LegendTable[i][1] = k][2]

\* bits 2-12 of a class, by arithmetic on the low half
Bits2to12(c) == U32(0, ((c.lo \div 4) % 2048) * 4)

\* C4 as claimed: for a class that is a case label the result is the label's
\* string and " [LE]", for a class whose bits 2-12 are no label "Misc [LE]".
C4_LegendOrMisc ==
    encDone =>
        /\ (encClass.hi = 0 /\ encClass.lo \in LegendKeys)
              => encResult = LegendName(encClass.lo) \o " [LE]"
        /\ Bits2to12(encClass).lo \notin LegendKeys => encResult = "Misc [LE]"

\* C5: the result is a non-empty string ending in " [LE]" and is the result for
\* the class with all bits outside 2-12 cleared, so classes that agree on bits
\* 2-12 get one result.
C5_DependsOnBits2to12 ==
    encDone =>
        /\ Len(encResult) > 0
        /\ \E n \in LegendNames : encResult = n \o " [LE]"
        /\ encResult = buildCapabilities(Bits2to12(encClass))
        /\ \A c \in ClassInputs :
              Bits2to12(c) = Bits2to12(encClass) => buildCapabilities(c) = encResult

\* C5 witness: a class with bits set on every side of 2-12
C5_Witness ==
    /\ encDone
    /\ encClass = U32(\HFFFF, \HE20F)
    /\ encResult = "Smartphone [LE]"

\* C6 as claimed: no failure of the registry ends the process, and an event whose
\* lookup failed gets a row with AuthMode "Misc [LE]" and Frequency "0".
C6_RegistryFailureDegrades ==
    /\ panicMsg # "failed to connect to system dbus: error"
    /\ \A w \in Workers :
          (scanPc[w] = "write" /\ lookupFailed[w])
              => (row[w][3] = "Misc [LE]" /\ row[w][6] = "0")

\* C7: once must() has panicked the process is over at that step: no report
\* was processed, no device discovered, no data row written, nothing started.
C7_StartupFailureEnds ==
    panicMsg # "" =>
        /\ mainPc = "panicked"
        /\ ~watching /\ ~gpsProcessed
        /\ events = 0 /\ DataRows = 0
        /\ BetweenEvents /\ gpsPc = "idle"

\* C7 witness: the log file could not be created
C7_Witness ==
    /\ mainPc = "panicked"
    /\ panicMsg = "failed to create CSV file: error"
    /\ dirExists /\ ~fileExists /\ filterAdded

\* C8 as claimed: after a failed scan start the failure is reported and the
\* process then terminates.
C8_ExitsAfterScanFailure ==
    (mainPc = "scanFailed") ~> (stdout /\ ~Alive)

\* C9: whenever the callback is not running, the file on disk holds the header
\* and one row per accepted event and the writer's buffer is empty.
C9_RowsOnDiskBetweenEvents ==
    (mainPc = "scanning" /\ BetweenEvents) =>
        /\ buf = <<>>
        /\ Len(file) = 1 + accepted
        /\ file[1] = Header

\* C9 witness: two events accepted, both rows on disk
C9_Witness ==
    /\ mainPc = "scanning" /\ BetweenEvents
    /\ accepted = 2
    /\ Len(file) = 3

StartupPcs ==
    {"enable", "dial", "addFilter", "dbus", "mkdir", "create", "header", "headerFlush",
     "watch", "scan"}

Idle == mainPc \in StartupPcs

Running == mainPc = "scanning"

Terminated == ~Alive

\* C11 as claimed: the process is Idle, Running or Terminated and nothing else:
\* once startup is over and the process lives, discovery events are delivered.
\* Running is entered from Idle only, by the last startup step, Running is left
\* for Terminated only, and Terminated is never left.
C11_ThreeLifecycleStates ==
    [][/\ Idle' \/ Running' \/ Terminated'
       /\ Terminated => Terminated'
       /\ Running => (Running' \/ Terminated')
       /\ (Running' /\ ~Running) => mainPc = "scan"
       /\ Idle => (Idle' \/ Running' \/ Terminated')]_vars

\* the AuthMode that belongs to a value of bits 2-12
AuthModeOf(code) == (IF code \in LegendKeys THEN LegendName(code) ELSE "Misc") \o " [LE]"

\* C13: the AuthMode and the Frequency of a row come from one class value c
\* under one mask: Frequency is the decimal of c & 0x1FFC and AuthMode the
\* table's string for c & 0x1FFC followed by " [LE]"; a class with bits 2-12
\* equal to 0x020C gives "Smartphone [LE]" and "524". Every record written
\* pairs a Frequency with the AuthMode of that same number.
C13_AuthModeAndFrequencyAgree ==
    /\ \A w \in Workers :
          scanPc[w] = "write" =>
              /\ row[w][6] = ToString(Bits2to12(deviceClass[w]).lo)
              /\ row[w][3] = AuthModeOf(Bits2to12(deviceClass[w]).lo)
              /\ Bits2to12(deviceClass[w]).lo = \H020C =>
                    (row[w][3] = "Smartphone [LE]" /\ row[w][6] = "524")
    /\ \A i \in DOMAIN Records :
          Records[i] # Header =>
              \E code \in LegendKeys \cup {0, \H0454} :
                  /\ Records[i][6] = ToString(code)
                  /\ Records[i][3] = AuthModeOf(code)

\* C13 witness: a row of the pager, whose registry class has bits above bit 12
\* set, is on disk as a smartphone with Frequency 524
C13_Witness ==
    /\ Len(file) >= 2
    /\ file[2][1] = "AA:BB:CC:DD:EE:FF"
    /\ file[2][3] = "Smartphone [LE]"
    /\ file[2][6] = "524"
    /\ RegistryClass(ObjectPath(DevicePager)).hi # 0

\* the places of the callback up to and including the fix check
UpToFixCheck == {"idle", "lock", "unlock", "checkFix"} \cup CopyPcs

CompletedSnapshot ==
    [Fix |-> completed.Mode >= 2, Latitude |-> completed.Lat, Longitude |-> completed.Lon,
     Altitude |-> completed.Alt, Error |-> completed.Eph]

\* C12: whenever tpvFilter does not hold the mutex the stored snapshot is that
\* of the most recently completed update, with Fix = (Mode >= 2), or the zero
\* value before the first. The copy a callback invocation has when it releases
\* the mutex is that snapshot, the copy does not change afterwards, and the
\* location fields of its row are the copy's: a report that was superseded
\* before the copy is in no row. An update that waits for the mutex waits for
\* a callback that is copying, never for another update.
C12_LatestCompletedReportWins ==
    /\ [](/\ locationMu # "gps" => currentLocation = CompletedSnapshot
          /\ \A w \in Workers :
                /\ scanPc[w] = "unlock" => loc[w] = CompletedSnapshot
                /\ scanPc[w] = "write" =>
                      /\ row[w][8] = FormatF(loc[w].Latitude)
                      /\ row[w][9] = FormatF(loc[w].Longitude)
                      /\ row[w][10] = FormatD(IntOf(loc[w].Altitude))
                      /\ row[w][11] = FormatF(loc[w].Error)
          /\ (gpsPc = "lock" /\ locationMu # "free") =>
                (locationMu \in Workers /\ scanPc[locationMu] \in CopyPcs \cup {"unlock"}))
    /\ [][\A w \in Workers : (HasSnapshot(w) /\ HasSnapshot(w)') => loc'[w] = loc[w]]_vars

\* C12 witness: a row with the 3D report's position is on disk, the 2D report
\* has superseded it, and the row about to be written carries the 2D position
C12_Witness ==
    /\ Len(file) = 2
    /\ file[2][8] = "37.000000"
    /\ completed = Report2D
    /\ scanPc["w1"] = "write"
    /\ row["w1"][8] = "37.000001"
    /\ row["w1"][10] = "0"

StorePcs == {"store" \o LocationFields[i] : i \in DOMAIN LocationFields}

\* C20: tpvFilter holds the mutex exactly while it stores and until it unlocks,
\* a callback invocation exactly while it copies and until it unlocks; so the
\* mutex is free of the callback at the fix check and on the return without a
\* fix, at the registry lookup, the first-seen update and the file write. No
\* invocation waits for the mutex forever, and an update that asks for the
\* mutex gets it, unless the process ends first.
C20_LockHeldOnlyToCopy ==
    /\ [](/\ locationMu = "gps" <=> gpsPc \in StorePcs \cup {"unlock"}
          /\ \A w \in Workers : locationMu = w <=> scanPc[w] \in CopyPcs \cup {"unlock"})
    /\ \A w \in Workers : (scanPc[w] = "lock") ~> (locationMu = w \/ ~Alive)
    /\ (gpsPc = "lock") ~> (locationMu = "gps" \/ ~Alive)

\* C20 witness: the callback writes its row with the mutex free while tpvFilter,
\* which asked for the mutex during the copy, has it and stores
C20_Witness ==
    /\ scanPc["w1"] = "write"
    /\ locationMu = "gps"
    /\ gpsPc \in StorePcs
    /\ loc["w1"].Fix

\* the places where a callback invocation is inside its check-and-set of the
\* first-seen registry, and inside its write-and-flush of a row
RegistryPcs == {"setFirst"}

WriterPcs == {"flush"}

\* C14 as claimed: when the scan source runs two invocations at once, no two
\* are inside the registry's check-and-set together and no two inside the
\* writer's write-and-flush together, and the rows of one address carry one
\* FirstSeen.
C14_RegistryAndWriterExclusive ==
    /\ \A v, w \in Workers :
          v # w =>
              /\ ~(scanPc[v] \in RegistryPcs /\ scanPc[w] \in RegistryPcs)
              /\ ~(scanPc[v] \in WriterPcs /\ scanPc[w] \in WriterPcs)
    /\ RowsAgreeOnFirstSeen

\* C15 as claimed: when a running pipeline is terminated from outside, a
\* shutdown step has flushed the writer before the process is Terminated: what
\* the writer held is in the file.
C15_FlushedBeforeTerminated ==
    [][(Running /\ mainPc' = "killed") => file' = file \o buf]_vars

\* a step in which the control loop reads the key k and runs its branch
Pressed(k) == keys' = keys + 1 /\ choice' = k

\* C16: under either script at most one scanner process is alive, and the
\* number of scanner processes grows only in the UP branch, and there only
\* when pgrep found none.
C16_AtMostOneScanner ==
    [][/\ scanners' <= 1
       /\ scanners' > scanners => (Pressed("UP") /\ ~pgrep)]_vars

\* C16 witness: UP was pressed while the scanner, started by an earlier UP and
\* logging, was alive, and nothing was started
C16_Witness ==
    /\ choice = "UP"
    /\ keys >= 2
    /\ said = "wigle-bluetooth is already running."
    /\ logging = 1 /\ starting = 0

\* C17 as claimed: under either script no scanner process is alive after the
\* DOWN branch and an UP pressed next starts one; DOWN with no scanner alive
\* changes neither the processes nor the files.
C17_DownStopsScanner ==
    [][/\ Pressed("DOWN") =>
             /\ scanners' = 0
             /\ ~pgrep => UNCHANGED <<starting, logging, btLogs, wifiLogs, combined>>
       /\ (choice = "DOWN" /\ Pressed("UP")) => starting' = 1]_vars

\* the files of both loot directories, the scanner and the wigle mode
Loot == <<btLogs, wifiLogs, combined, starting, logging, wigleMode>>

\* C18: under payload.sh a combined file is created only by RIGHT with no
\* scanner alive and a log in each directory; RIGHT pressed while a scanner is
\* alive or while either directory has no log creates nothing and leaves the
\* logs, the scanner and the wigle mode as they are.
C18_CombineOnlyWhenStopped ==
    [][script = "payload.sh" =>
          /\ combined' # combined =>
                /\ Pressed("RIGHT")
                /\ ~pgrep /\ latest_bluetooth_csv /\ latest_wifi_csv
          /\ (Pressed("RIGHT") /\ (pgrep \/ ~latest_bluetooth_csv \/ ~latest_wifi_csv))
                => Loot' = Loot]_vars

\* C18 witness: payload.sh refused RIGHT while the scanner was logging, with
\* a log in each directory
C18_Witness ==
    /\ script = "payload.sh"
    /\ choice = "RIGHT"
    /\ said = "Please stop the wigle-bluetooth process before combining CSV files."
    /\ logging = 1
    /\ btLogs > 0 /\ wifiLogs > 0
    /\ combined = 0

====
